---- MODULE Spec2Model ----
(***************************************************************************)
(* Certificate validation service: the certificate store                   *)
(* (CertificatesService, mock and Firestore/GCS backends), the request      *)
(* dispatcher (CommunicationService.handleRequest), the Pub/Sub adapter     *)
(* (setupPubSub's "message" handler) and the HTTP gateway.                  *)
(*                                                                         *)
(* Every request (a Pub/Sub message or an HTTP request) occupies a slot of  *)
(* reqs.  A handler runs from one await to the next in one action; the      *)
(* awaits of the code are the values of pc.                                 *)
(***************************************************************************)
EXTENDS Integers, Sequences, FiniteSets, TLC

\* ------------------------------------------------------------------ bounds
MaxReq == 2
MaxDeliveries == 2
MaxCrashes == 1

Slots == 1..MaxReq

\* ------------------------------------------------------- JavaScript values
Undefined == "<undefined>"
Null == "<null>"

\* JavaScript truthiness of a string-or-absent value.
Truthy(v) == v \notin {Undefined, Null, ""}

\* a || b
Or(a, b) == IF Truthy(a) THEN a ELSE b

\* String(v)
String(v) == IF v = Undefined THEN "undefined" ELSE IF v = Null THEN "null" ELSE v

\* A default parameter value (x: T = d) replaces undefined only.
DefaultParam(v, d) == IF v = Undefined THEN d ELSE v

\* Buffer.from(file, "base64"): lenient, characters outside the alphabet are
\* skipped and nothing is rejected.
BufferFromBase64(file) ==
    IF file = "b64" THEN "bytes" ELSE IF file = "notb64" THEN "junkbytes" ELSE "emptybytes"

\* ------------------------------------------------------------ input domains
\* Upload arguments <<productId, file, certificateId>>: complete ones, and
\* ones with a single field absent, malformed or unknown to the registry.
\* "b64" is a well-formed base64 text and "notb64" is not; "cv" is a
\* certificate number the registry holds as valid and "ci" is not.
UploadIn ==
    {<<"p1", "b64", "cv">>, <<"p2", "b64", "cv">>,
     <<Undefined, "b64", "cv">>, <<Null, "b64", "cv">>,
     <<"p1", Undefined, "cv">>, <<"p1", "notb64", "cv">>,
     <<"p1", "b64", Undefined>>, <<"p1", "b64", "ci">>}
ProductIdIn == {"p1", "p2", Undefined}
AttrCorrIn == {Undefined, "ta"}
BodyCorrIn == {Undefined, "tb"}

\* ------------------------------------------------------------- the registry
\* The ISCC database as the model sees it: "cv" is the number of exactly one
\* currently valid certificate, every other search term matches nothing valid.
RegistryValidUntil == "2999-01-01"

\* ISO dates (YYYY-MM-DD) in calendar order.  JavaScript orders strings by
\* code unit, which for this format is the calendar order.
Dates == <<"2020-01-01", "2026-11-04", RegistryValidUntil>>

DateOrd(d) == CHOOSE i \in 1..Len(Dates) : Dates[i] = d

\* new Date().toISOString().split("T")[0]
Today == Dates[2]

\* x ?? null
Coalesce(x) == IF x \in {Null, Undefined} THEN Null ELSE x

\* A row of the table: an array of cells, of which number is row[1],
\* validFrom row[7] and validUntil row[8], or something that is no array.
Row(number, validFrom, validUntil) ==
    [array |-> TRUE, number |-> number, validFrom |-> validFrom, validUntil |-> validUntil]

NotARow ==
    [array |-> FALSE, number |-> Undefined, validFrom |-> Undefined, validUntil |-> Undefined]

\* The parsed answer of the table query: null, an object whose data is no
\* array, or an object with its data rows.
Table(rows) == [shape |-> "table", data |-> rows]

NoTable(shape) == [shape |-> shape, data |-> <<>>]

\* The validity computation with the upper bound exclusive.
validCertificateStrict(responseJson, productId, today) ==
    IF responseJson.shape # "table" \/ Len(responseJson.data) = 0
    THEN [validUntil |-> Null, valid |-> FALSE]
    ELSE LET row == responseJson.data[1] IN
         IF ~row.array THEN [validUntil |-> Null, valid |-> FALSE]
         ELSE LET validUntil == Coalesce(row.validUntil)
                  validAfter == Coalesce(row.validFrom)
              IN [validUntil |-> validUntil,
                  valid |-> /\ validUntil # Null
                            /\ validAfter # Null
                            /\ DateOrd(validUntil) > DateOrd(today)
                            /\ DateOrd(validAfter) <= DateOrd(today)
                            /\ Len(responseJson.data) = 1
                            /\ String(row.number) = String(productId)]

\* validCertificate that returns row[7], the first day of validity, as the
\* valid-until date.
validCertificateFrom(responseJson, productId, today) ==
    IF responseJson.shape # "table" \/ Len(responseJson.data) = 0
    THEN [validUntil |-> Null, valid |-> FALSE]
    ELSE LET row == responseJson.data[1] IN
         IF ~row.array THEN [validUntil |-> Null, valid |-> FALSE]
         ELSE LET validUntil == Coalesce(row.validUntil)
                  validAfter == Coalesce(row.validFrom)
              IN [validUntil |-> validAfter,
                  valid |-> /\ validUntil # Null
                            /\ validAfter # Null
                            /\ DateOrd(validUntil) >= DateOrd(today)
                            /\ DateOrd(validAfter) <= DateOrd(today)
                            /\ Len(responseJson.data) = 1
                            /\ String(row.number) = String(productId)]

\* verifyCertificate from the shape checks on: [validUntil, validCertificate].
validCertificate(responseJson, productId, today) ==
    IF responseJson.shape # "table" \/ Len(responseJson.data) = 0
    THEN [validUntil |-> Null, valid |-> FALSE]
    ELSE LET row == responseJson.data[1] IN
         IF ~row.array THEN [validUntil |-> Null, valid |-> FALSE]
         ELSE LET validUntil == Coalesce(row.validUntil)
                  validAfter == Coalesce(row.validFrom)
              IN [validUntil |-> validUntil,
                  valid |-> /\ validUntil # Null
                            /\ validAfter # Null
                            /\ DateOrd(validUntil) >= DateOrd(today)
                            /\ DateOrd(validAfter) <= DateOrd(today)
                            /\ Len(responseJson.data) = 1
                            /\ String(row.number) = String(productId)]

\* verifyCertificate(productId) when the table query answers responseJson,
\* under network outcome net:
\*   "pagefail"  the nonce page fetch rejects (outside the try): it throws;
\*   "queryfail" the table query rejects or does not parse: [null, false];
\*   "ok"        the registry answers.
verifyCertificateOn(net, responseJson, productId, today) ==
    IF net = "pagefail" THEN [throws |-> TRUE, validUntil |-> Null, valid |-> FALSE]
    ELSE IF net = "queryfail" THEN [throws |-> FALSE, validUntil |-> Null, valid |-> FALSE]
    ELSE LET v == validCertificate(responseJson, productId, today)
         IN [throws |-> FALSE, validUntil |-> v.validUntil, valid |-> v.valid]

\* What the registry answers to a search: the one row of "cv", the one row
\* of "cw" (a certificate whose last day of validity is today), else no row.
RegistryAnswer(searchTerm) ==
    IF searchTerm = "cv"
    THEN Table(<<Row("cv", Dates[1], RegistryValidUntil)>>)
    ELSE IF searchTerm = "cw"
    THEN Table(<<Row("cw", Dates[1], Today)>>)
    ELSE Table(<<>>)

\* verifyCertificate(searchTerm) against the registry, today.
verifyCertificate(searchTerm, net) ==
    verifyCertificateOn(net, RegistryAnswer(searchTerm), searchTerm, Today)

NetOutcomes == {"ok", "pagefail", "queryfail"}

\* A call of verifyCertificate: the search term, what the network and the
\* registry do, the day, and the result once it has ended.
Probe(net, responseJson, productId, today) ==
    [net |-> net, responseJson |-> responseJson, productId |-> productId,
     today |-> today, ended |-> FALSE,
     throws |-> FALSE, validUntil |-> Null, valid |-> FALSE]

NoProbe == Probe("ok", Table(<<>>), "", Today)

\* Cells of the two date columns: a date, null, or no cell at all.
DateCells == {Dates[i] : i \in 1..Len(Dates)} \cup {Null, Undefined}

ProbeRows ==
    {Row(n, f, u) : n \in {"cv", "ci"}, f \in DateCells, u \in DateCells}
    \cup {NotARow}

\* Answers of the table query: null, no data array, no row, one row, or that
\* row followed by a second one.
ProbeResponses ==
    {NoTable("null"), NoTable("nodata"), Table(<<>>)}
    \cup {Table(<<row>>) : row \in ProbeRows}
    \cup {Table(<<row, Row("cv", Dates[1], Dates[3])>>) : row \in ProbeRows}

ProbeInputs ==
    {Probe(net, responseJson, productId, Dates[i]) :
        net \in NetOutcomes, responseJson \in ProbeResponses,
        productId \in {"cv", "ci"}, i \in 1..Len(Dates)}

\* ---------------------------------------------------------------- the store
\* "a b" is a productId with a character that a URL path cannot hold as it
\* is, and "a%20b" is its percent-encoded form.
Keys == {"p1", "p2", "", "null", "a b", "a%20b"}

VARIABLES
    backend,    \* USE_MOCK_STORAGE: "mock" or "durable"
    store,      \* mockStorage / the Firestore collection: key -> certificates
    blobs,      \* the GCS bucket: object names (<<key, certId>>) -> content
    nextId,     \* ids issued so far (Date.now() + random suffix: fresh)
    reqs,       \* request slots: the message or HTTP request and its handler
    published,  \* messages published on the response topic
    crashes,    \* process restarts so far
    listed,     \* bookkeeping: the keys for which an upload has stored a
                \* record and no delete has removed the product since
    probe,      \* one call of verifyCertificate on its own: its inputs and,
                \* once it has returned, its result
    boot        \* startup: the Pub/Sub resources, the position of
                \* setupPubSub, the HTTP listener and the liveness probe

vars == <<backend, store, blobs, nextId, reqs, published, crashes, listed, probe,
          boot>>

\* The product record of key k exists.
Exists(k) == store[k].exists

Certs(k) == store[k].certificates

\* listCertificates(): the product ids of all records.
listCertificates == {k \in Keys : Exists(k)}

\* listProductCertificates(productId)
listProductCertificates(k) == IF Exists(k) THEN Certs(k) ELSE <<>>

Ids(certs) == {certs[i].id : i \in 1..Len(certs)}

\* certificates.filter(c => String(c.id) !== String(certId))
RECURSIVE Without(_, _)
Without(certs, id) ==
    IF certs = <<>> THEN <<>>
    ELSE IF Head(certs).id = id THEN Without(Tail(certs), id)
         ELSE <<Head(certs)>> \o Without(Tail(certs), id)

AbsentDoc == [exists |-> FALSE, certificates |-> <<>>]

Doc(certs) == [exists |-> TRUE, certificates |-> certs]

\* `${Date.now()}-${Math.random()...}`: the n-th id issued.
CertIdNames ==
    <<"c1", "c2", "c3", "c4", "c5", "c6", "c7", "c8",
      "c9", "c10", "c11", "c12", "c13", "c14", "c15", "c16">>

CertId(n) == CertIdNames[n]

IssuedIds == {CertId(n) : n \in 1..nextId}

\* certMeta with verified left false.
CertMetaUnverified(id, validUntil, r) ==
    [id |-> id,
     bucketPath |-> IF backend = "mock" THEN "mock://" ELSE "gs://",
     verified |-> FALSE,
     validUntil |-> validUntil,
     origin |-> r,
     fresh |-> TRUE]

\* certMeta of uploadCertificate.  Bookkeeping: origin is the request slot,
\* fresh tells whether the id had never been generated before.
CertMeta(id, validUntil, r) ==
    [id |-> id,
     bucketPath |-> IF backend = "mock" THEN "mock://" ELSE "gs://",
     verified |-> TRUE,
     validUntil |-> validUntil,
     origin |-> r,
     fresh |-> TRUE]

\* --------------------------------------------------------------- requests
NoReq ==
    [used |-> FALSE, via |-> "", body |-> "", op |-> Undefined,
     productId |-> Undefined, file |-> Undefined, certificateId |-> Undefined,
     attrCorr |-> Undefined, bodyCorr |-> Undefined,
     deliveries |-> 0, acked |-> FALSE, pc |-> "idle",
     corr |-> Undefined, snap |-> <<>>, certId |-> Undefined,
     validUntil |-> Null, status |-> "none",
     productIds |-> {}, certificates |-> <<>>,
     verdict |-> "none", ioFailed |-> FALSE,
     trace |-> <<>>, regCalls |-> 0, applied |-> 0,
     readLen |-> 0, repeated |-> FALSE, fresh |-> TRUE,
     code |-> 0, success |-> "none"]

\* A request as the client sends it.
Msg(via, body, op, productId, file, certificateId, attrCorr, bodyCorr) ==
    [NoReq EXCEPT !.used = TRUE, !.via = via, !.body = body, !.op = op,
                  !.productId = productId, !.file = file,
                  !.certificateId = certificateId,
                  !.attrCorr = attrCorr, !.bodyCorr = bodyCorr]

\* Certificate ids a delete request may name: issued ones, one never issued,
\* or none at all.
DeleteIdIn == IssuedIds \cup {"cx", Undefined}

\* JSON request envelopes that parse and carry a data mapping.
ChanEnvelopes ==
    {Msg("chan", "ok", "upload", u[1], u[2], u[3], Undefined, Undefined) : u \in UploadIn}
    \cup {Msg("chan", "ok", o, p, Undefined, c, Undefined, Undefined) :
        o \in {"delete", "deleteProductCertificate"}, p \in ProductIdIn, c \in DeleteIdIn}
    \cup {Msg("chan", "ok", "listProductCertificates", p, Undefined, Undefined, Undefined, Undefined) :
        p \in ProductIdIn}
    \cup {Msg("chan", "ok", o, Undefined, Undefined, Undefined, Undefined, Undefined) :
        o \in {"list", "bogus", Undefined}}

\* Message bodies: not JSON ("garbage"), JSON without a data mapping
\* ("nodata"), or an envelope.
ChanBodies ==
    {Msg("chan", "garbage", Undefined, Undefined, Undefined, Undefined, Undefined, Undefined),
     Msg("chan", "nodata", "upload", Undefined, Undefined, Undefined, Undefined, Undefined)}
    \cup ChanEnvelopes

\* Messages on the request topic: a body, message attributes, and for a body
\* that parses possibly a correlationId member.  The tokens are varied on one
\* message of each way the handler can end (catch before the dispatcher,
\* catch after it, a response without and with awaits in the store).
Correlated(b) ==
    \/ b.body \in {"garbage", "nodata"}
    \/ b.op \in {"list", "bogus"}
    \/ b.op = "upload" /\ b.productId = "p1" /\ b.file = "b64" /\ b.certificateId = "cv"

ChanMessages ==
    {m \in {[b EXCEPT !.attrCorr = a, !.bodyCorr = c] :
                b \in ChanBodies, a \in AttrCorrIn, c \in BodyCorrIn} :
        /\ m.body = "garbage" => m.bodyCorr = Undefined
        /\ ~Correlated(m) => m.attrCorr = Undefined /\ m.bodyCorr = Undefined}

\* HTTP requests: POST /certificates/upload (a body that is not JSON, or a
\* JSON object), GET /certificates, GET /certificates/:productId and
\* DELETE /certificates/:productId/:certId (absent path segments are empty).
HttpRequests ==
    {Msg("http", "garbage", "upload", Undefined, Undefined, Undefined, Undefined, Undefined)}
    \cup {Msg("http", "ok", "upload", u[1], u[2], u[3], Undefined, Undefined) : u \in UploadIn}
    \cup {Msg("http", "ok", "list", Undefined, Undefined, Undefined, Undefined, Undefined)}
    \cup {Msg("http", "ok", "listProductCertificates", p, Undefined, Undefined, Undefined, Undefined) :
        p \in {"p1", "p2", ""}}
    \cup {Msg("http", "ok", "deleteProductCertificate", p, Undefined, c, Undefined, Undefined) :
        p \in {"p1", "p2"}, c \in IssuedIds \cup {"cx", ""}}

\* encodeURIComponent, by which a client writes a productId into a path.
EncodeURIComponent(id) == IF id = "a b" THEN "a%20b" ELSE id

\* decodeURIComponent: the productId that a path segment names.
DecodeURIComponent(segment) == IF segment = "a%20b" THEN "a b" ELSE segment

\* url.pathname.split("/")[2]: the segment as the URL holds it.
Segment(id) == EncodeURIComponent(id)

\* POST /certificates/upload, GET /certificates/:productId and
\* DELETE /certificates/:productId/:certId for the products p1 and "a b",
\* and GET /certificates.
PathRequests ==
    {Msg("http", "ok", "upload", p, "b64", "cv", Undefined, Undefined) : p \in {"p1", "a b"}}
    \cup {Msg("http", "ok", "list", Undefined, Undefined, Undefined, Undefined, Undefined)}
    \cup {Msg("http", "ok", "listProductCertificates", Segment(p), Undefined, Undefined,
              Undefined, Undefined) : p \in {"p1", "p2", "a b"}}
    \cup {Msg("http", "ok", "deleteProductCertificate", Segment(p), Undefined, c,
              Undefined, Undefined) : p \in {"p1", "a b"}, c \in IssuedIds}

\* Calls of CertificatesService.deleteCertificate(productId) by a caller in
\* the process (no request of the dispatcher or of the gateway reaches it).
DirectCalls ==
    {Msg("direct", "ok", "deleteProduct", p, Undefined, Undefined, Undefined, Undefined) :
        p \in {"p1", "p2"}}

\* ------------------------------------------------------ handler arguments
\* The arguments the store operation receives: handleRequest's default
\* parameters on the channel, the validated and decoded body over HTTP.
ArgProductId(q) ==
    IF q.via = "chan" THEN DefaultParam(q.productId, "") ELSE q.productId

ArgFile(q) ==
    IF q.via = "chan" THEN DefaultParam(q.file, Null) ELSE BufferFromBase64(q.file)

ArgCertificateId(q) ==
    IF q.via = "chan" THEN DefaultParam(q.certificateId, "") ELSE q.certificateId

\* productIdStr
Key(q) == String(ArgProductId(q))

\* ------------------------------------------------------------- responses
NoResponse ==
    [req |-> 0, delivery |-> 0, operationType |-> Undefined, status |-> "none",
     productId |-> Undefined, certificateId |-> Undefined,
     productIds |-> {}, certificates |-> <<>>, total |-> -1,
     hasAttributes |-> FALSE, correlationId |-> Undefined]

\* The catch block's message: no attributes.
FailedResponse(r, q) ==
    [NoResponse EXCEPT !.req = r, !.delivery = q.deliveries,
                       !.operationType = "FailedResponse", !.status = "false"]

\* handleRequest whose listProductCertificatesResponse carries no productId,
\* as its deleteResponse carries none.
handleRequestNoProductId(r, q) ==
    LET base == [NoResponse EXCEPT !.req = r, !.delivery = q.deliveries] IN
    CASE q.op = "upload" ->
           [base EXCEPT !.operationType = "uploadResponse", !.status = q.status]
      [] q.op = "delete" ->
           [base EXCEPT !.operationType = "deleteResponse", !.status = q.status]
      [] q.op = "deleteProductCertificate" ->
           [base EXCEPT !.operationType = "deleteProductCertificateResponse",
                        !.productId = ArgProductId(q),
                        !.certificateId = ArgCertificateId(q),
                        !.status = q.status]
      [] q.op = "list" ->
           [base EXCEPT !.operationType = "listResponse",
                        !.productIds = q.productIds,
                        !.total = Cardinality(q.productIds)]
      [] q.op = "listProductCertificates" ->
           [base EXCEPT !.operationType = "listProductCertificatesResponse",
                        !.certificates = q.certificates,
                        !.total = Len(q.certificates)]
      [] OTHER -> base

\* handleRequest whose list responses carry no total.
handleRequestNoTotal(r, q) ==
    LET base == [NoResponse EXCEPT !.req = r, !.delivery = q.deliveries] IN
    CASE q.op = "upload" ->
           [base EXCEPT !.operationType = "uploadResponse", !.status = q.status]
      [] q.op = "delete" ->
           [base EXCEPT !.operationType = "deleteResponse", !.status = q.status]
      [] q.op = "deleteProductCertificate" ->
           [base EXCEPT !.operationType = "deleteProductCertificateResponse",
                        !.productId = ArgProductId(q),
                        !.certificateId = ArgCertificateId(q),
                        !.status = q.status]
      [] q.op = "list" ->
           [base EXCEPT !.operationType = "listResponse",
                        !.productIds = q.productIds]
      [] q.op = "listProductCertificates" ->
           [base EXCEPT !.operationType = "listProductCertificatesResponse",
                        !.productId = ArgProductId(q),
                        !.certificates = q.certificates]
      [] OTHER -> base

\* The value handleRequest returns for q once the store operation has set
\* q.status, q.productIds or q.certificates (no case matches: undefined).
handleRequest(r, q) ==
    LET base == [NoResponse EXCEPT !.req = r, !.delivery = q.deliveries] IN
    CASE q.op = "upload" ->
           [base EXCEPT !.operationType = "uploadResponse", !.status = q.status]
      [] q.op = "delete" ->
           [base EXCEPT !.operationType = "deleteResponse", !.status = q.status]
      [] q.op = "deleteProductCertificate" ->
           [base EXCEPT !.operationType = "deleteProductCertificateResponse",
                        !.productId = ArgProductId(q),
                        !.certificateId = ArgCertificateId(q),
                        !.status = q.status]
      [] q.op = "list" ->
           [base EXCEPT !.operationType = "listResponse",
                        !.productIds = q.productIds,
                        !.total = Cardinality(q.productIds)]
      [] q.op = "listProductCertificates" ->
           [base EXCEPT !.operationType = "listProductCertificatesResponse",
                        !.productId = ArgProductId(q),
                        !.certificates = q.certificates,
                        !.total = Len(q.certificates)]
      [] OTHER -> base

Recognized(op) ==
    op \in {"upload", "delete", "deleteProductCertificate", "list", "listProductCertificates"}

\* The handler's locals are dropped when it ends.
Ended(q) ==
    [q EXCEPT !.pc = "idle", !.snap = <<>>, !.certId = Undefined,
              !.validUntil = Null, !.corr = Undefined, !.readLen = 0,
              !.fresh = TRUE]

\* AckAndPublish with the two calls in the other order.
AckAndPublishSwapped(r, q) ==
    IF Recognized(q.op)
    THEN [req |-> Ended([q EXCEPT !.acked = TRUE,
                                  !.trace = @ \o <<"return", "publish", "ack">>]),
          pub |-> {[handleRequest(r, q) EXCEPT !.hasAttributes = TRUE,
                                               !.correlationId = Or(q.corr, "unknown")]}]
    ELSE [req |-> Ended([q EXCEPT !.trace = @ \o <<"return", "failed">>]),
          pub |-> {FailedResponse(r, q)}]

\* The message handler after handleRequest has returned: message.ack(),
\* then publishMessage with the correlationId attribute.  For an undefined
\* response Buffer.from throws after the ack and the catch block publishes
\* the FailedResponse.
AckAndPublish(r, q) ==
    IF Recognized(q.op)
    THEN [req |-> Ended([q EXCEPT !.acked = TRUE,
                                  !.trace = @ \o <<"return", "ack", "publish">>]),
          pub |-> {[handleRequest(r, q) EXCEPT !.hasAttributes = TRUE,
                                               !.correlationId = Or(q.corr, "unknown")]}]
    ELSE [req |-> Ended([q EXCEPT !.acked = TRUE,
                                  !.trace = @ \o <<"return", "ack", "failed">>]),
          pub |-> {FailedResponse(r, q)}]

\* The message handler without its try/catch: the exception leaves the async
\* callback as an unhandled rejection, which ends the process.
CatchRethrow(r, q) ==
    [req |-> [q EXCEPT !.pc = "uncaught", !.trace = @ \o <<"uncaught">>],
     pub |-> {}]

\* The catch block of the message handler: no ack.
Catch(r, q) ==
    [req |-> Ended([q EXCEPT !.trace = @ \o <<"failed">>]),
     pub |-> {FailedResponse(r, q)}]

\* The HTTP handler's answer to a finished store call.
\* The status line when the upload route answers 200 whatever the store
\* returned.
HttpStatusUploadOk(q) ==
    CASE q.op = "upload" -> 200
      [] q.op = "deleteProductCertificate" -> IF q.status = "true" THEN 200 ELSE 400
      [] q.op = "list" -> 200
      [] q.op = "listProductCertificates" -> IF Len(q.certificates) > 0 THEN 200 ELSE 404
      [] OTHER -> 404

\* The status line of a route once its store call has returned.
HttpStatus(q) ==
    CASE q.op = "upload" -> IF q.status = "true" THEN 200 ELSE 400
      [] q.op = "deleteProductCertificate" -> IF q.status = "true" THEN 200 ELSE 400
      [] q.op = "list" -> 200
      [] q.op = "listProductCertificates" -> IF Len(q.certificates) > 0 THEN 200 ELSE 404
      [] OTHER -> 404

HttpAnswer(q, code, success) ==
    [req |-> Ended([q EXCEPT !.code = code, !.success = success,
                             !.trace = @ \o <<"return", "answer">>]),
     pub |-> {}]

\* The caller's continuation once the store call has returned.
Return(r, q) ==
    IF q.via = "chan" THEN AckAndPublish(r, q)
    ELSE IF q.via = "direct"
         THEN [req |-> Ended([q EXCEPT !.trace = @ \o <<"return">>]), pub |-> {}]
    ELSE HttpAnswer(q, HttpStatus(q),
                    IF q.op \in {"upload", "deleteProductCertificate"} THEN q.status ELSE "none")

\* The caller's continuation once the store call has thrown.
Throw(r, q) ==
    IF q.via = "chan" THEN Catch(r, [q EXCEPT !.status = "throw"])
    ELSE HttpAnswer([q EXCEPT !.status = "throw"], 500, "false")

\* The store operation's catch block: an I/O error becomes a false result
\* (an empty listing for the two list operations).
Failed(r, q) ==
    Return(r, [q EXCEPT !.ioFailed = TRUE,
                        !.status = IF q.op \in {"list", "listProductCertificates"}
                                   THEN q.status ELSE "false"])

\* ------------------------------------------------------------- one turn
\* What one turn of the event loop leaves behind: the handler's request
\* record, the responses it published, and the store.
Out(x, st, bl, nid) ==
    [req |-> x.req, pub |-> x.pub, store |-> st, blobs |-> bl, nextId |-> nid]

Keep(x) == Out(x, store, blobs, nextId)

\* The handler suspends at an await.
Await(q, pc) == Keep([req |-> [q EXCEPT !.pc = pc], pub |-> {}])

\* The process runs: no exception has escaped a handler.
Alive == \A r \in Slots : reqs[r].pc # "uncaught"

Commit(r, o) ==
    /\ Alive
    /\ reqs' = [reqs EXCEPT ![r] = o.req]
    /\ published' = published \cup o.pub
    /\ store' = o.store
    /\ blobs' = o.blobs
    /\ nextId' = o.nextId
    /\ listed' =
         LET k == Key(o.req) IN
         IF o.req.op = "upload" /\ o.req.applied > reqs[r].applied THEN listed \cup {k}
         ELSE IF o.req.op \in {"delete", "deleteProductCertificate", "deleteProduct"}
                 /\ o.req.status = "true" /\ ~o.store[k].exists
              THEN listed \ {k}
              ELSE listed
    /\ UNCHANGED <<backend, crashes, probe, boot>>

\* ------------------------------------------------- store, mock backend
\* mockUpload that reports success without mockStorage.set.
mockUploadNoSet(r, q, validUntil) ==
    Out(Return(r, [q EXCEPT !.status = "true", !.applied = @ + 1]),
        store, blobs, IF q.fresh THEN nextId + 1 ELSE nextId)

\* mockUpload that pushes certMeta onto the record and onto the copy it sets.
mockUploadTwice(r, q, validUntil) ==
    LET k == Key(q)
        cert == [CertMeta(q.certId, validUntil, r) EXCEPT !.fresh = q.fresh]
        st == [store EXCEPT ![k] = Doc(listProductCertificates(k) \o <<cert, cert>>)]
    IN Out(Return(r, [q EXCEPT !.status = "true", !.applied = @ + 1]),
           st, blobs, IF q.fresh THEN nextId + 1 ELSE nextId)

\* mockUpload on a map that holds one product at a time: the set drops
\* every other product.
mockUploadAlone(r, q, validUntil) ==
    LET k == Key(q)
        cert == [CertMeta(q.certId, validUntil, r) EXCEPT !.fresh = q.fresh]
        st == [j \in Keys |-> IF j = k THEN Doc(listProductCertificates(k) \o <<cert>>)
                              ELSE AbsentDoc]
    IN Out(Return(r, [q EXCEPT !.status = "true", !.applied = @ + 1]),
           st, blobs, IF q.fresh THEN nextId + 1 ELSE nextId)

\* uploadCertificate after a valid verification, mock branch: get or create
\* the record, push certMeta (with the id just generated, q.certId), set.
\* No await: one turn.
mockUpload(r, q, validUntil) ==
    LET k == Key(q)
        cert == [CertMeta(q.certId, validUntil, r) EXCEPT !.fresh = q.fresh]
        st == [store EXCEPT ![k] = Doc(listProductCertificates(k) \o <<cert>>)]
    IN Out(Return(r, [q EXCEPT !.status = "true", !.applied = @ + 1]),
           st, blobs, IF q.fresh THEN nextId + 1 ELSE nextId)

\* deleteCertificate(productId) that reports success and deletes nothing.
mockDeleteCertificateKeep(r, q) ==
    Keep(Return(r, [q EXCEPT !.status = "true"]))

\* deleteCertificate(productId), mock branch: mockStorage.delete.
mockDeleteCertificate(r, q) ==
    Out(Return(r, [q EXCEPT !.status = "true"]),
        [store EXCEPT ![Key(q)] = AbsentDoc], blobs, nextId)

\* mockDeleteProductCertificate that drops the first certificate of the
\* product instead of the one named.
mockDeleteFirst(r, q) ==
    LET k == Key(q)
        certId == String(ArgCertificateId(q))
        updated == Tail(Certs(k))
    IN IF ~Exists(k) \/ certId \notin Ids(Certs(k))
       THEN Keep(Return(r, [q EXCEPT !.status = "false"]))
       ELSE Out(Return(r, [q EXCEPT !.status = "true"]),
                [store EXCEPT ![k] = IF Len(updated) > 0 THEN Doc(updated) ELSE AbsentDoc],
                blobs, nextId)

\* mockDeleteProductCertificate without the delete-on-empty branch.
mockDeleteKeepEmpty(r, q) ==
    LET k == Key(q)
        certId == String(ArgCertificateId(q))
    IN IF ~Exists(k) \/ certId \notin Ids(Certs(k))
       THEN Keep(Return(r, [q EXCEPT !.status = "false"]))
       ELSE Out(Return(r, [q EXCEPT !.status = "true"]),
                [store EXCEPT ![k] = Doc(Without(Certs(k), certId))],
                blobs, nextId)

\* deleteProductCertificate, mock branch.
mockDeleteProductCertificate(r, q) ==
    LET k == Key(q)
        certId == String(ArgCertificateId(q))
        updated == Without(Certs(k), certId)
    IN IF ~Exists(k) \/ certId \notin Ids(Certs(k))
       THEN Keep(Return(r, [q EXCEPT !.status = "false"]))
       ELSE Out(Return(r, [q EXCEPT !.status = "true"]),
                [store EXCEPT ![k] = IF Len(updated) > 0 THEN Doc(updated) ELSE AbsentDoc],
                blobs, nextId)

\* ------------------------------------------------------------ dispatching
DeleteOps == {"delete", "deleteProductCertificate"}

\* Bookkeeping: an earlier deleteProductCertificate with the arguments of q
\* has returned true.
Repeated(r, q) ==
    \E s \in Slots \ {r} :
        /\ reqs[s].used /\ reqs[s].op \in DeleteOps
        /\ reqs[s].pc = "idle" /\ reqs[s].status = "true"
        /\ Key(reqs[s]) = Key(q)
        /\ String(ArgCertificateId(reqs[s])) = String(ArgCertificateId(q))

\* The call of the store operation, up to its first await.
StoreCall(r, q) ==
    CASE q.op = "upload" ->
           Await([q EXCEPT !.regCalls = @ + 1], "verify")
      [] q.op \in DeleteOps ->
           LET d == [q EXCEPT !.repeated = Repeated(r, q)] IN
           IF backend = "mock" THEN mockDeleteProductCertificate(r, d)
           ELSE IF Key(d) = "" THEN Keep(Failed(r, d))
           ELSE Await(d, "delget")
      [] q.op = "deleteProduct" ->
           IF backend = "mock" THEN mockDeleteCertificate(r, q)
           ELSE IF Key(q) = "" THEN Keep(Failed(r, q))
           ELSE Await(q, "pdelget")
      [] q.op = "list" ->
           IF backend = "mock"
           THEN Keep(Return(r, [q EXCEPT !.productIds = listCertificates]))
           ELSE Await(q, "listget")
      [] q.op = "listProductCertificates" ->
           IF backend = "mock"
           THEN Keep(Return(r, [q EXCEPT !.certificates = listProductCertificates(Key(q))]))
           ELSE IF Key(q) = "" THEN Keep(Failed(r, q))
           ELSE Await(q, "plistget")
      [] OTHER -> Keep(Return(r, q))

\* OnMessage with message.ack() right after JSON.parse.
OnMessageAckFirst(r, q) ==
    CASE q.body = "garbage" -> Keep(Catch(r, q))
      [] q.body = "nodata" -> Keep(Catch(r, [q EXCEPT !.trace = <<"parse">>, !.acked = TRUE]))
      [] OTHER -> StoreCall(r, [q EXCEPT !.trace = <<"parse", "ack", "dispatch">>,
                                         !.acked = TRUE,
                                         !.corr = Or(q.attrCorr, q.bodyCorr)])

\* subscription.on("message"): JSON.parse, the correlationId, and the call of
\* handleRequest with the members of payload.data.
OnMessage(r, q) ==
    CASE q.body = "garbage" -> Keep(Catch(r, q))
      [] q.body = "nodata" -> Keep(Catch(r, [q EXCEPT !.trace = <<"parse">>]))
      [] OTHER -> StoreCall(r, [q EXCEPT !.trace = <<"parse", "dispatch">>,
                                         !.corr = Or(q.attrCorr, q.bodyCorr)])

\* http.createServer's request listener for the certificate routes.
OnHttp(r, q) ==
    CASE q.op = "upload" /\ q.body = "garbage" -> Keep(HttpAnswer(q, 500, "false"))
      [] q.op = "upload" /\ q.body # "garbage" ->
           IF ~Truthy(q.productId) \/ ~Truthy(q.file) \/ ~Truthy(q.certificateId)
           THEN Keep(HttpAnswer(q, 400, "false"))
           ELSE StoreCall(r, [q EXCEPT !.trace = <<"parse", "dispatch">>])
      [] q.op = "listProductCertificates" ->
           IF ~Truthy(q.productId) THEN Keep(HttpAnswer(q, 400, "false"))
           ELSE StoreCall(r, [q EXCEPT !.trace = <<"dispatch">>])
      [] q.op = "deleteProductCertificate" ->
           IF ~Truthy(q.productId) \/ ~Truthy(q.certificateId)
           THEN Keep(HttpAnswer(q, 400, "false"))
           ELSE StoreCall(r, [q EXCEPT !.trace = <<"dispatch">>])
      [] OTHER -> StoreCall(r, [q EXCEPT !.trace = <<"dispatch">>])

\* A delivery of message q to the handler.
Delivered(q) ==
    [q EXCEPT !.deliveries = @ + 1, !.status = "none", !.trace = <<>>,
              !.productIds = {}, !.certificates = <<>>,
              !.verdict = "none", !.ioFailed = FALSE, !.repeated = FALSE]

FreeSlot(r) == ~reqs[r].used /\ \A s \in Slots : s < r => reqs[s].used

\* ---------------------------------------------------------------- actions
\* A client publishes a message on the request topic and the subscription
\* delivers it.
Receive(r) ==
    /\ boot.attached
    /\ FreeSlot(r)
    /\ \E m \in ChanMessages : Commit(r, OnMessage(r, Delivered(m)))

\* Pub/Sub delivers an unacknowledged message again.
Redeliver(r) ==
    /\ boot.attached
    /\ reqs[r].used /\ reqs[r].via = "chan"
    /\ ~reqs[r].acked /\ reqs[r].pc = "idle"
    /\ reqs[r].deliveries < MaxDeliveries
    /\ Commit(r, OnMessage(r, Delivered(reqs[r])))

\* An HTTP request arrives.
HttpRequest(r) ==
    /\ boot.listening
    /\ FreeSlot(r)
    /\ \E m \in HttpRequests : Commit(r, OnHttp(r, Delivered(m)))

\* Uploads for p1 of the certificate numbers "cv", "cw" (two rows of the
\* registry with different valid-until dates) and "ci" (no row), on both
\* gateways, and the requests that read and delete what they stored.
RegistryRequests ==
    {Msg(via, "ok", "upload", "p1", "b64", c, Undefined, Undefined) :
        via \in {"chan", "http"}, c \in {"cv", "cw", "ci"}}
    \cup {Msg("chan", "ok", "list", Undefined, Undefined, Undefined, Undefined, Undefined),
          Msg("chan", "ok", "listProductCertificates", "p1", Undefined, Undefined,
              Undefined, Undefined)}
    \cup {Msg("chan", "ok", "deleteProductCertificate", "p1", Undefined, c,
              Undefined, Undefined) : c \in IssuedIds}

\* A request of RegistryRequests arrives at its gateway.
RegistryRequest(r) ==
    /\ boot.listening /\ boot.attached
    /\ FreeSlot(r)
    /\ \E m \in RegistryRequests :
         Commit(r, IF m.via = "chan" THEN OnMessage(r, Delivered(m))
                   ELSE OnHttp(r, Delivered(m)))

\* An HTTP request of PathRequests arrives.
PathRequest(r) ==
    /\ boot.listening
    /\ FreeSlot(r)
    /\ \E m \in PathRequests : Commit(r, OnHttp(r, Delivered(m)))

\* uploadCertificate from the return of verifyCertificate to its next await,
\* when the id it generates is certId.
Verified(r, net, certId, fresh) ==
    LET q == reqs[r]
        v == verifyCertificate(String(ArgCertificateId(q)), net)
        g == [q EXCEPT !.verdict = "valid", !.certId = certId, !.fresh = fresh]
    IN IF v.throws THEN Keep(Throw(r, [q EXCEPT !.verdict = "threw"]))
       ELSE IF ~v.valid
            THEN Keep(Return(r, [q EXCEPT !.status = "false", !.verdict = "invalid"]))
       ELSE IF backend = "mock" THEN mockUpload(r, g, v.validUntil)
       ELSE Out([req |-> [g EXCEPT !.pc = "save", !.validUntil = v.validUntil],
                 pub |-> {}],
                store, blobs, IF fresh THEN nextId + 1 ELSE nextId)

\* uploadCertificate resumes after verifyCertificate; the id it generates
\* (`${Date.now()}-${Math.random()...}`) is one never generated before.
Verify(r) ==
    /\ reqs[r].pc = "verify"
    /\ \E net \in NetOutcomes : Commit(r, Verified(r, net, CertId(nextId + 1), TRUE))

\* The same, when the millisecond and the six random characters give an id
\* that was generated before: nothing in uploadCertificate looks for it.
VerifyRepeat(r) ==
    /\ reqs[r].pc = "verify"
    /\ \E certId \in IssuedIds : Commit(r, Verified(r, "ok", certId, FALSE))

\* ---------------------------------------------- store, durable backend
\* An I/O call of the blob store or of the document store succeeds or fails.
IoOutcomes == BOOLEAN

\* gcsFile.save resolves or rejects; then docRef is built (an empty document
\* path throws inside the try) and docRef.get() is issued.
Save(r) ==
    /\ reqs[r].pc = "save"
    /\ \E ok \in IoOutcomes :
         LET q == reqs[r] IN
         Commit(r,
           IF ~ok THEN Keep(Failed(r, q))
           ELSE LET bl == blobs \cup {<<Key(q), q.certId, ArgFile(q)>>} IN
                IF Key(q) = ""
                THEN Out(Failed(r, q), store, bl, nextId)
                ELSE Out([req |-> [q EXCEPT !.pc = "get"], pub |-> {}], store, bl, nextId))

\* docRef.get() resolves: the certificates read, with certMeta pushed, are
\* what docRef.set will write.
Get(r) ==
    /\ reqs[r].pc = "get"
    /\ \E ok \in IoOutcomes :
         LET q == reqs[r] IN
         Commit(r,
           IF ~ok THEN Keep(Failed(r, q))
           ELSE Await([q EXCEPT !.snap = listProductCertificates(Key(q))
                                        \o <<[CertMeta(q.certId, q.validUntil, r)
                                                EXCEPT !.fresh = q.fresh]>>],
                      "set"))

\* docRef.set({productId, certificates}, {merge: true}) is applied by
\* Firestore, or fails.
Set(r) ==
    /\ reqs[r].pc = "set"
    /\ \E ok \in IoOutcomes :
         LET q == reqs[r] IN
         Commit(r,
           IF ~ok THEN Keep(Failed(r, q))
           ELSE Out([req |-> [q EXCEPT !.pc = "respond", !.status = "true",
                                       !.applied = @ + 1, !.snap = <<>>],
                     pub |-> {}],
                    [store EXCEPT ![Key(q)] = Doc(q.snap)], blobs, nextId))

\* deleteProductCertificate resumes after docRef.get().
DelGet(r) ==
    /\ reqs[r].pc = "delget"
    /\ \E ok \in IoOutcomes :
         LET q == reqs[r]
             k == Key(q)
             certId == String(ArgCertificateId(q))
         IN Commit(r,
              IF ~ok THEN Keep(Failed(r, q))
              ELSE IF ~Exists(k) \/ certId \notin Ids(Certs(k))
              THEN Keep(Return(r, [q EXCEPT !.status = "false"]))
              ELSE Await([q EXCEPT !.snap = Certs(k), !.readLen = Len(Certs(k))],
                         "delblob"))

\* bucket.file(objectName).delete(): done, 404 (tolerated), or another error.
\* Then the filtered sequence is written, or the document deleted.
DelBlob(r) ==
    /\ reqs[r].pc = "delblob"
    /\ \E ok \in IoOutcomes :
         LET q == reqs[r]
             certId == String(ArgCertificateId(q))
             bl == {b \in blobs : ~(b[1] = Key(q) /\ b[2] = certId)}
         IN Commit(r,
              IF ~ok THEN Keep(Failed(r, q))
              ELSE Out([req |-> [q EXCEPT !.pc = "delwrite",
                                          !.snap = Without(q.snap, certId)],
                        pub |-> {}],
                       store, bl, nextId))

\* docRef.set({certificates: updated}, {merge: true}) when certificates
\* remain, else docRef.delete() whose failure is swallowed.
DelWrite(r) ==
    /\ reqs[r].pc = "delwrite"
    /\ \E ok \in IoOutcomes :
         LET q == reqs[r]
             updated == q.snap
             done == [req |-> [q EXCEPT !.pc = "respond", !.status = "true", !.snap = <<>>],
                      pub |-> {}]
         IN Commit(r,
              IF Len(updated) > 0
              THEN IF ok THEN Out(done, [store EXCEPT ![Key(q)] = Doc(updated)], blobs, nextId)
                   ELSE Keep(Failed(r, q))
              ELSE IF ok THEN Out(done, [store EXCEPT ![Key(q)] = AbsentDoc], blobs, nextId)
                   ELSE Keep([done EXCEPT !.req.ioFailed = TRUE]))

\* listCertificates resumes after collection.get().
ListGet(r) ==
    /\ reqs[r].pc = "listget"
    /\ \E ok \in IoOutcomes :
         Commit(r, Keep(IF ok THEN Return(r, [reqs[r] EXCEPT !.productIds = listCertificates])
                        ELSE Failed(r, reqs[r])))

\* listProductCertificates resumes after docRef.get().
ProductGet(r) ==
    /\ reqs[r].pc = "plistget"
    /\ \E ok \in IoOutcomes :
         Commit(r, Keep(IF ok THEN Return(r, [reqs[r] EXCEPT
                                     !.certificates = listProductCertificates(Key(reqs[r]))])
                        ELSE Failed(r, reqs[r])))

\* The write has been applied; the store call returns to its caller.
Respond(r) ==
    /\ reqs[r].pc = "respond"
    /\ Commit(r, Keep(Return(r, reqs[r])))

\* A caller in the process invokes deleteCertificate(productId).
DirectCall(r) ==
    /\ FreeSlot(r)
    /\ \E m \in DirectCalls :
         Commit(r, StoreCall(r, [Delivered(m) EXCEPT !.trace = <<"dispatch">>]))

\* deleteCertificate(productId) resumes after docRef.get(): the certificates
\* whose blobs it will delete, none when the document does not exist.
ProductDelGet(r) ==
    /\ reqs[r].pc = "pdelget"
    /\ \E ok \in IoOutcomes :
         LET q == reqs[r]
             certificates == listProductCertificates(Key(q))
         IN Commit(r,
              IF ~ok THEN Keep(Failed(r, q))
              ELSE Await([q EXCEPT !.snap = certificates],
                         IF Len(certificates) > 0 THEN "pdelblob" ELSE "pdeldoc"))

\* One turn of its loop: bucket.file(objectName).delete() of the next
\* certificate: done, 404 (tolerated), or another error.
ProductDelBlob(r) ==
    /\ reqs[r].pc = "pdelblob"
    /\ \E ok \in IoOutcomes :
         LET q == reqs[r]
             bl == {b \in blobs : ~(b[1] = Key(q) /\ b[2] = Head(q.snap).id)}
         IN Commit(r,
              IF ~ok THEN Keep(Failed(r, q))
              ELSE Out([req |-> [q EXCEPT !.snap = Tail(q.snap),
                                          !.pc = IF Len(q.snap) > 1 THEN "pdelblob"
                                                 ELSE "pdeldoc"],
                        pub |-> {}],
                       store, bl, nextId))

\* The document's delete() whose failure is swallowed.
ProductDelDoc(r) ==
    /\ reqs[r].pc = "pdeldoc"
    /\ \E ok \in IoOutcomes :
         LET q == reqs[r]
             done == [req |-> [q EXCEPT !.pc = "respond", !.status = "true", !.snap = <<>>],
                      pub |-> {}]
         IN Commit(r,
              IF ok THEN Out(done, [store EXCEPT ![Key(q)] = AbsentDoc], blobs, nextId)
              ELSE Keep([done EXCEPT !.req.ioFailed = TRUE]))

\* ------------------------------------------------------------------ startup
\* setupPubSub runs at most this many times.
MaxRuns == 2

\* The Pub/Sub resources the service needs.
Resources == {"REQUEST_TOPIC", "RESPONSE_TOPIC", "REQUEST_SUBSCRIPTION"}

\* The process before setupPubSub is called, when the resources of present
\* exist: no handler attached, no listener.  topics and subscriptions are
\* what getTopics and getSubscriptions returned, reason is why the run
\* failed, startedWith the resources that existed when the run began, and
\* health and healthAt the last answer of /healthz and the position of
\* setupPubSub when it was given.
Boot(present) ==
    [present |-> present, pc |-> "start", topics |-> {}, subscriptions |-> {},
     attached |-> FALSE, listening |-> FALSE, reason |-> "none",
     runs |-> 0, startedWith |-> {}, health |-> 0, healthBody |-> "",
     healthAt |-> "none"]

\* The process once setupPubSub has found or created everything.
Booted ==
    [Boot(Resources) EXCEPT !.pc = "done", !.attached = TRUE, !.listening = TRUE,
                            !.runs = 1, !.startedWith = Resources]

\* setupPubSub without its try/catch: the rejection of the promise nobody
\* awaits ends the process, and the listener with it.
SetupRethrow(b, reason) ==
    [b EXCEPT !.pc = "failed", !.reason = reason, !.listening = FALSE]

\* setupPubSub's catch block: the error is logged and the run is over.
SetupCatch(b, reason) == [b EXCEPT !.pc = "failed", !.reason = reason]

\* subscription.on("message", ...) and the end of the try block.
Attach(b) == [b EXCEPT !.attached = TRUE, !.pc = "done"]

\* The outcome of createTopic / createSubscription for resource res, b
\* being the process when the call succeeds: Pub/Sub rejects the creation
\* of a resource that exists (ALREADY_EXISTS), and any call can fail.
Create(res, ok, b) ==
    IF res \in boot.present THEN SetupCatch(boot, "exists")
    ELSE IF ~ok THEN SetupCatch(boot, "unavailable")
    ELSE [b EXCEPT !.present = @ \cup {res}]

\* Where setupPubSub goes once the request topic is settled.
AfterRequestTopic(topics) ==
    IF "RESPONSE_TOPIC" \notin topics THEN "mkresp" ELSE "getsubs"

BootStep(b) ==
    /\ boot' = b
    /\ UNCHANGED <<backend, store, blobs, nextId, reqs, published, crashes,
                   listed, probe>>

\* The module body: setupPubSub() is called and not awaited, it runs to its
\* first await, and server.listen follows.  A later call of setupPubSub
\* starts another run.
StartSetup ==
    /\ boot.pc \in {"start", "done", "failed"}
    /\ boot.runs < MaxRuns
    /\ BootStep([boot EXCEPT !.pc = "gettopics", !.listening = TRUE,
                             !.runs = @ + 1, !.reason = "none",
                             !.startedWith = boot.present])

\* getTopics resolves; createTopic is called for the first topic the
\* listing lacks.
GetTopics ==
    /\ boot.pc = "gettopics"
    /\ \E ok \in BOOLEAN :
         BootStep(IF ~ok THEN SetupCatch(boot, "unavailable")
                  ELSE LET topics == boot.present \ {"REQUEST_SUBSCRIPTION"}
                       IN [boot EXCEPT !.topics = topics,
                             !.pc = IF "REQUEST_TOPIC" \notin topics THEN "mkreq"
                                    ELSE AfterRequestTopic(topics)])

\* createTopic(REQUEST_TOPIC) settles.
CreateRequestTopic ==
    /\ boot.pc = "mkreq"
    /\ \E ok \in BOOLEAN :
         BootStep(Create("REQUEST_TOPIC", ok,
                         [boot EXCEPT !.pc = AfterRequestTopic(boot.topics)]))

\* createTopic(RESPONSE_TOPIC) settles.
CreateResponseTopic ==
    /\ boot.pc = "mkresp"
    /\ \E ok \in BOOLEAN :
         BootStep(Create("RESPONSE_TOPIC", ok, [boot EXCEPT !.pc = "getsubs"]))

\* getSubscriptions resolves: the handler is attached when the subscription
\* is listed, createSubscription is called when it is not.
GetSubscriptions ==
    /\ boot.pc = "getsubs"
    /\ \E ok \in BOOLEAN :
         BootStep(IF ~ok THEN SetupCatch(boot, "unavailable")
                  ELSE LET subs == boot.present \cap {"REQUEST_SUBSCRIPTION"}
                           b == [boot EXCEPT !.subscriptions = subs]
                       IN IF subs = {} THEN [b EXCEPT !.pc = "mksub"] ELSE Attach(b))

\* createSubscription settles.
CreateSubscription ==
    /\ boot.pc = "mksub"
    /\ \E ok \in BOOLEAN :
         BootStep(Create("REQUEST_SUBSCRIPTION", ok, Attach(boot)))

\* Another party (a deployment script, another instance of the service)
\* creates a resource that does not exist; a subscription needs its topic.
OtherCreates ==
    \E res \in Resources \ boot.present :
        /\ res = "REQUEST_SUBSCRIPTION" => "REQUEST_TOPIC" \in boot.present
        /\ BootStep([boot EXCEPT !.present = @ \cup {res}])

\* GET /healthz: answered before any route that reads the store.
Healthz ==
    /\ boot.listening
    /\ BootStep([boot EXCEPT !.health = 200, !.healthBody = "ok",
                             !.healthAt = boot.pc])

\* One request of each certificate route.
BootRequests ==
    {m \in HttpRequests :
        \/ m.op = "list"
        \/ m.op = "upload" /\ m.body = "ok" /\ m.productId = "p1"
                            /\ m.file = "b64" /\ m.certificateId = "cv"
        \/ m.op = "listProductCertificates" /\ m.productId = "p1"
        \/ m.op = "deleteProductCertificate" /\ m.productId = "p1"
                                              /\ m.certificateId # ""}

\* An HTTP request arrives once setupPubSub has ended.
BootHttp(r) ==
    /\ boot.listening
    /\ boot.pc \in {"done", "failed"}
    /\ FreeSlot(r)
    /\ \E m \in BootRequests : Commit(r, OnHttp(r, Delivered(m)))

\* The process dies and restarts: every handler in flight is gone, the
\* in-memory mockStorage is empty again, Firestore and GCS keep their data.
Crash ==
    /\ crashes < MaxCrashes
    /\ \E r \in Slots : reqs[r].pc # "idle"
    /\ crashes' = crashes + 1
    /\ reqs' = [r \in Slots |->
                  IF reqs[r].pc = "idle" THEN reqs[r]
                  ELSE Ended([reqs[r] EXCEPT !.trace = @ \o <<"crash">>])]
    /\ store' = IF backend = "mock" THEN [k \in Keys |-> AbsentDoc] ELSE store
    /\ listed' = IF backend = "mock" THEN {} ELSE listed
    /\ UNCHANGED <<backend, blobs, nextId, published, probe, boot>>

\* The service starts with no request in flight.  The store is empty, or
\* holds what one earlier upload for p1 left in it: the record of c1 and, in
\* the durable backend, its blob.
Init ==
    /\ backend \in {"mock", "durable"}
    /\ nextId \in {0, 1}
    /\ store = [k \in Keys |->
                  IF nextId = 1 /\ k = "p1"
                  THEN Doc(<<CertMeta(CertId(1), RegistryValidUntil, 0)>>)
                  ELSE AbsentDoc]
    /\ blobs = IF nextId = 1 /\ backend = "durable" THEN {<<"p1", CertId(1), "bytes">>} ELSE {}
    /\ listed = IF nextId = 1 THEN {"p1"} ELSE {}
    /\ reqs = [r \in Slots |-> NoReq]
    /\ published = {}
    /\ crashes = 0
    /\ probe = NoProbe
    /\ boot = Booted

Next ==
    \E r \in Slots :
        \/ Receive(r)
        \/ Redeliver(r)
        \/ HttpRequest(r)
        \/ Verify(r)
        \/ Save(r)
        \/ Get(r)
        \/ Set(r)
        \/ DelGet(r)
        \/ DelBlob(r)
        \/ DelWrite(r)
        \/ ListGet(r)
        \/ ProductGet(r)
        \/ Respond(r)

Spec == Init /\ [][Next]_vars

\* A handler suspended at an await resumes: the registry, the blob store and
\* the document store settle every promise, and the event loop runs every
\* continuation that is ready.
Resume(r) ==
    \/ Verify(r) \/ Save(r) \/ Get(r) \/ Set(r)
    \/ DelGet(r) \/ DelBlob(r) \/ DelWrite(r)
    \/ ListGet(r) \/ ProductGet(r) \/ Respond(r)

\* The messages of the edge-case tests: the malformed ones (unparsable, no
\* data, missing or unknown operationType), the list request, and one
\* request of each other operation on p1; no correlation tokens.
LiveMessages ==
    {m \in ChanMessages :
        /\ m.attrCorr = Undefined /\ m.bodyCorr = Undefined
        /\ \/ m.body \in {"garbage", "nodata"}
           \/ ~Recognized(m.op)
           \/ m.op = "list"
           \/ m.op = "upload" /\ m.productId = "p1" /\ m.file = "b64"
                               /\ m.certificateId = "cv"
           \/ m.op = "deleteProductCertificate" /\ m.productId = "p1"
                                                 /\ m.certificateId = CertId(1)
           \/ m.op = "listProductCertificates" /\ m.productId = "p1"}

ReceiveLive(r) ==
    /\ boot.attached
    /\ FreeSlot(r)
    /\ \E m \in LiveMessages : Commit(r, OnMessage(r, Delivered(m)))

\* The message consumer alone, under that scheduling.
NextLive == \E r \in Slots : ReceiveLive(r) \/ Redeliver(r) \/ Resume(r)

SpecLive == Init /\ [][NextLive]_vars /\ \A r \in Slots : WF_vars(Resume(r))

\* verifyCertificate on its own: one call on any input, no request around it.
InitVerify ==
    /\ backend = "mock"
    /\ nextId = 0
    /\ store = [k \in Keys |-> AbsentDoc]
    /\ blobs = {}
    /\ listed = {}
    /\ reqs = [r \in Slots |-> NoReq]
    /\ published = {}
    /\ crashes = 0
    /\ probe \in ProbeInputs
    /\ boot = Booted

VerifyProbe ==
    /\ ~probe.ended
    /\ LET v == verifyCertificateOn(probe.net, probe.responseJson,
                                    probe.productId, probe.today)
       IN probe' = [probe EXCEPT !.ended = TRUE, !.throws = v.throws,
                                 !.validUntil = v.validUntil, !.valid = v.valid]
    /\ UNCHANGED <<backend, store, blobs, nextId, reqs, published, crashes, listed, boot>>

SpecVerify == InitVerify /\ [][VerifyProbe]_vars

\* The process from its start: the transport in any state, the store empty.
InitBoot ==
    /\ backend \in {"mock", "durable"}
    /\ nextId = 0
    /\ store = [k \in Keys |-> AbsentDoc]
    /\ blobs = {}
    /\ listed = {}
    /\ reqs = [r \in Slots |-> NoReq]
    /\ published = {}
    /\ crashes = 0
    /\ probe = NoProbe
    /\ boot \in {Boot(present) : present \in SUBSET Resources}

NextBoot ==
    \/ StartSetup
    \/ GetTopics
    \/ CreateRequestTopic
    \/ CreateResponseTopic
    \/ GetSubscriptions
    \/ CreateSubscription
    \/ OtherCreates
    \/ Healthz
    \/ \E r \in Slots : BootHttp(r) \/ Resume(r)

SpecBoot == InitBoot /\ [][NextBoot]_vars

\* The certificate routes whose productId is a path segment, together with
\* the upload route, for productIds with and without a character that needs
\* percent-encoding.
NextPath == \E r \in Slots : PathRequest(r) \/ Resume(r)

SpecPath == Init /\ [][NextPath]_vars

\* The service when the registry holds certificates with different
\* valid-until dates.
NextRegistry == \E r \in Slots : RegistryRequest(r) \/ Resume(r)

SpecRegistry == Init /\ [][NextRegistry]_vars

\* The service when the id generator may repeat itself.
NextIds == Next \/ \E r \in Slots : VerifyRepeat(r)

SpecIds == Init /\ [][NextIds]_vars

\* The service together with direct callers of deleteCertificate(productId).
NextDirect ==
    \/ Next
    \/ \E r \in Slots :
         DirectCall(r) \/ ProductDelGet(r) \/ ProductDelBlob(r) \/ ProductDelDoc(r)

SpecDirect == Init /\ [][NextDirect]_vars

\* No handler is suspended at an await.
Idle == \A s \in Slots : reqs[s].pc = "idle"

\* No call of the registry, the blob store or the document store has failed
\* (an empty document path is no I/O failure: doc("") throws by itself).
NoFault ==
    \A r \in Slots :
        /\ reqs[r].verdict # "threw"
        /\ reqs[r].ioFailed => reqs[r].op # "list" /\ Key(reqs[r]) = ""

\* The service used sequentially and without I/O failures: a call starts
\* only when the one before it has returned.
NextSeq ==
    \E r \in Slots :
        \/ /\ Idle
           /\ Receive(r) \/ Redeliver(r) \/ HttpRequest(r) \/ DirectCall(r)
           /\ NoFault'
        \/ /\ Resume(r) \/ ProductDelGet(r) \/ ProductDelBlob(r) \/ ProductDelDoc(r)
           /\ NoFault'

SpecSeq == Init /\ [][NextSeq]_vars

NextCrash == Next \/ Crash

SpecCrash == Init /\ [][NextCrash]_vars

TypeOK ==
    /\ backend \in {"mock", "durable"}
    /\ nextId \in 0..(MaxReq * MaxDeliveries + 1)
    /\ listed \subseteq Keys
    /\ \A r \in Slots : reqs[r].deliveries \in 0..MaxDeliveries

\* ------------------------------------------------------------ properties
Used == {r \in Slots : reqs[r].used}

Range(f) == {f[i] : i \in DOMAIN f}

\* The records of the store that request r's uploads appended.
Produced(r) ==
    {<<k, i>> \in Keys \X (1..(MaxReq * MaxDeliveries + 1)) :
        i <= Len(Certs(k)) /\ Certs(k)[i].origin = r}

UploadsTo(k) == {r \in Used : reqs[r].op = "upload" /\ Key(reqs[r]) = k}

DeletesOn(k) ==
    {r \in Used : reqs[r].op \in {"delete", "deleteProductCertificate"} /\ Key(reqs[r]) = k}

\* C1: once the concurrent uploads for one productId have all returned (and
\* nothing deleted from that product), the product holds one record for every
\* upload that returned true, in the durable backend as in the mock one.
C1_NoLostUpdate ==
    \A k \in Keys :
        (/\ \A r \in UploadsTo(k) : reqs[r].pc = "idle"
         /\ DeletesOn(k) = {})
        => Cardinality({c \in Range(listProductCertificates(k)) : c.origin # 0})
             = Cardinality({r \in UploadsTo(k) : reqs[r].status = "true"})

\* An upload handler that has run to its end with the registry's verdict.
UploadEnded(r) == reqs[r].used /\ reqs[r].op = "upload" /\ reqs[r].pc = "idle"

\* A list request returns its result in this step.
ListReturns(r) ==
    /\ reqs'[r] # reqs[r]
    /\ reqs'[r].op = "list" /\ reqs'[r].pc = "idle"

\* C2 as stated: an upload whose certificateId the registry reports valid
\* returns true, and its productId is in every later list() until a delete
\* removes the product's last certificate.
C2_Original ==
    /\ [](\A r \in Slots : UploadEnded(r) /\ reqs[r].verdict = "valid"
                               => reqs[r].status = "true")
    /\ [](listed \subseteq listCertificates)
    /\ [][\A r \in Slots : ListReturns(r) => listed \subseteq reqs'[r].productIds]_vars

\* C2 as amended: an upload for a non-empty productId whose certificateId the
\* registry reports valid returns true unless one of its blob-store or
\* document-store calls fails; after a true return the productId is in the
\* result of every later list() whose own read does not fail, until a delete
\* removes the product record.
C2_UploadListed ==
    /\ [](\A r \in Slots :
            UploadEnded(r) /\ reqs[r].verdict = "valid" /\ ~reqs[r].ioFailed
              => reqs[r].status = "true")
    /\ [](listed \subseteq listCertificates)
    /\ [][\A r \in Slots : ListReturns(r) /\ ~reqs'[r].ioFailed
                               => listed \subseteq reqs'[r].productIds]_vars

C2_Witness ==
    \E r1, r2 \in Used :
        /\ r1 < r2
        /\ UploadEnded(r1) /\ reqs[r1].status = "true"
        /\ reqs[r2].op = "list" /\ reqs[r2].pc = "idle"
        /\ Key(reqs[r1]) \in reqs[r2].productIds
        /\ reqs[r1].applied = 1

AbsentField(q) ==
    ~Truthy(q.productId) \/ ~Truthy(q.file) \/ ~Truthy(q.certificateId)

\* C3: an upload with productId, file or certificateId absent never calls the
\* registry, does not succeed and stores nothing, on the channel as over HTTP.
C3_AbsentFieldRejected ==
    \A r \in Used :
        reqs[r].op = "upload" /\ reqs[r].body = "ok" /\ AbsentField(reqs[r])
        => /\ reqs[r].regCalls = 0
           /\ reqs[r].status # "true"
           /\ reqs[r].applied = 0

\* C4: when the registry reports the certificate invalid or cannot be
\* queried, upload returns false and has stored nothing.
C4_InvalidReturnsFalse ==
    \A r \in Used :
        UploadEnded(r) /\ reqs[r].verdict \in {"invalid", "threw"}
        => /\ reqs[r].status = "false"
           /\ Produced(r) = {}

\* C5: an upload whose file is not well-formed base64 does not succeed and
\* stores nothing, on the HTTP path and on the channel.
C5_MalformedFileRejected ==
    \A r \in Used :
        reqs[r].op = "upload" /\ reqs[r].file = "notb64"
        => /\ reqs[r].status # "true"
           /\ reqs[r].success # "true"
           /\ reqs[r].applied = 0

\* C6: no product record has an empty certificate sequence, in any reachable
\* state, interleaved uploads and deletes on one product included.
C6_NoEmptyProduct ==
    \A k \in Keys : Exists(k) => Len(Certs(k)) > 0

C6_Witness ==
    \E r1, r2 \in Used :
        /\ reqs[r1].op = "upload" /\ reqs[r1].pc = "set"
        /\ reqs[r2].op \in {"delete", "deleteProductCertificate"} /\ reqs[r2].pc = "delwrite"
        /\ Key(reqs[r1]) = Key(reqs[r2])

\* C7: a message whose body does not parse is acknowledged by the handler.
C7_UnparsableAcked ==
    \A r \in Used :
        reqs[r].via = "chan" /\ reqs[r].body = "garbage" /\ reqs[r].pc = "idle"
        => reqs[r].acked

\* e1 occurs in tr, and some e2 after it.
Before(tr, e1, e2) ==
    \E i, j \in DOMAIN tr : i < j /\ tr[i] = e1 /\ tr[j] = e2

C10_TokenCarried ==
    \A resp \in published :
        LET q == reqs[resp.req] IN
        Truthy(q.attrCorr) \/ Truthy(q.bodyCorr)
        => /\ resp.hasAttributes
           /\ resp.correlationId = Or(q.attrCorr, q.bodyCorr)

\* The responses published for request r.
ResponsesTo(r) == {resp \in published : resp.req = r}

\* An envelope {operationType, data} that parses and has its data mapping.
Envelope(q) == q.via = "chan" /\ q.body = "ok"

\* C11: for a request whose operationType is unrecognized or missing, nothing
\* is published on the response topic and the store is unchanged.
C11_UnknownDropped ==
    \A r \in Used :
        Envelope(reqs[r]) /\ ~Recognized(reqs[r].op)
        => /\ ResponsesTo(r) = {}
           /\ reqs[r].applied = 0

\* Request r is a list request in a well-formed envelope.
ListRequest(r) == reqs[r].used /\ Envelope(reqs[r]) /\ reqs[r].op = "list"

ListAnswered(r) == \E resp \in ResponsesTo(r) : resp.operationType = "listResponse"

\* C12: no message ends the consumer: the process stays alive whatever
\* messages (unparsable, without data, of unknown type) it has handled, and
\* every list request delivered is eventually answered by a listResponse.
C12_ConsumerSurvives ==
    /\ []Alive
    /\ \A r \in Slots : ListRequest(r) ~> ListAnswered(r)

\* An unparsable message has been handled and a list request that came after
\* it has its listResponse.
C12_Witness ==
    /\ reqs[1].used /\ reqs[1].body = "garbage" /\ reqs[1].pc = "idle"
    /\ ListRequest(2) /\ ListAnswered(2)
    /\ Alive

\* C13: every request with a recognized operationType T gets exactly one
\* response, of operationType T + "Response" (the safety half: never another
\* type, never a second response).
C13_OneTypedResponse ==
    \A r \in Used :
        Envelope(reqs[r]) /\ Recognized(reqs[r].op)
        => /\ \A resp \in ResponsesTo(r) :
                 resp.operationType = reqs[r].op \o "Response"
           /\ Cardinality(ResponsesTo(r)) <= 1

\* C14: verifyCertificate never throws; a registry that cannot be reached or
\* answers malformed makes it report invalid.
C14_VerifyNeverThrows ==
    \A r \in Used : reqs[r].verdict # "threw" /\ reqs[r].status # "throw"

\* The one row of the answer, when the query returned exactly one.
OneRow(p) ==
    /\ p.net = "ok"
    /\ p.responseJson.shape = "table"
    /\ Len(p.responseJson.data) = 1
    /\ p.responseJson.data[1].array

Present(cell) == cell \notin {Null, Undefined}

\* C15: verifyCertificate reports valid exactly when the query returns
\* exactly one row, the row's certificate number string-equals the
\* certificateId, validFrom and validUntil are both present, and
\* validFrom <= today <= validUntil; in every other case it reports no valid
\* certificate.
C15_ValidExactlyWhen ==
    probe.ended =>
        (probe.valid <=>
            /\ OneRow(probe)
            /\ LET row == probe.responseJson.data[1] IN
               /\ String(row.number) = String(probe.productId)
               /\ Present(row.validFrom) /\ Present(row.validUntil)
               /\ DateOrd(row.validFrom) <= DateOrd(probe.today)
               /\ DateOrd(probe.today) <= DateOrd(row.validUntil))

\* A certificate whose validity ends today is reported valid.
C15_Witness ==
    /\ probe.ended /\ probe.valid /\ OneRow(probe)
    /\ probe.responseJson.data[1].validUntil = probe.today
    /\ probe.responseJson.data[1].validFrom # probe.today

\* In this step the deleteProductCertificate of request r returns true (in
\* the durable backend: its write has been issued and has settled).
DeleteSucceeds(r) ==
    /\ reqs'[r].op \in DeleteOps
    /\ reqs[r].status # "true" /\ reqs'[r].status = "true"

\* The number of certificates the delete of request r found on its product.
FoundLen(r, k) == IF backend = "mock" THEN Len(Certs(k)) ELSE reqs[r].readLen

\* C16: when product p has exactly one certificate c, a successful
\* deleteProductCertificate(p, c) removes the product record: right after it
\* listProductCertificates(p) is empty and p is not in listCertificates().
C16_LastDeleteRemovesProduct ==
    [][\A r \in Slots : \A k \in Keys :
          (DeleteSucceeds(r) /\ k = Key(reqs'[r]) /\ FoundLen(r, k) = 1)
          => /\ listProductCertificates(k)' = <<>>
             /\ k \notin listCertificates']_vars

\* C17: when product p has N > 1 certificates, a successful
\* deleteProductCertificate(p, c) leaves exactly N-1 certificates for p, none
\* with id c, and p stays in listCertificates().
C17_DeleteLeavesOthers ==
    [][\A r \in Slots : \A k \in Keys :
          (DeleteSucceeds(r) /\ k = Key(reqs'[r]) /\ FoundLen(r, k) > 1)
          => /\ Len(listProductCertificates(k)') = FoundLen(r, k) - 1
             /\ String(ArgCertificateId(reqs'[r])) \notin Ids(listProductCertificates(k)')
             /\ k \in listCertificates']_vars

\* A delete that found two certificates on its product has written: one is
\* left, not the deleted one.
C17_Witness ==
    \E r \in Used :
        /\ reqs[r].op \in DeleteOps /\ reqs[r].status = "true"
        /\ reqs[r].pc = "respond" /\ reqs[r].readLen = 2
        /\ Len(listProductCertificates(Key(reqs[r]))) = 1
        /\ String(ArgCertificateId(reqs[r])) \notin Ids(Certs(Key(reqs[r])))

\* In this step the deleteProductCertificate of request r reads its product
\* record (mock: the whole call; durable: docRef.get() resolves).
DeleteReads(r) ==
    /\ reqs'[r].op \in DeleteOps
    /\ IF backend = "mock"
       THEN /\ reqs'[r].deliveries = reqs[r].deliveries + 1
            /\ "dispatch" \in Range(reqs'[r].trace)
       ELSE /\ reqs[r].pc = "delget" /\ reqs'[r].pc # "delget"
            /\ ~reqs'[r].ioFailed

\* C18: deleteProductCertificate(p, c) returns false and leaves the store
\* unchanged whenever p does not exist or has no certificate with id c; and
\* once a deleteProductCertificate(p, c) has returned true, every one called
\* after it returns false.
C18_DeleteMissingIsFalse ==
    /\ [][\A r \in Slots : \A k \in Keys :
            (/\ DeleteReads(r) /\ k = Key(reqs'[r])
             /\ \/ ~Exists(k)
                \/ String(ArgCertificateId(reqs'[r])) \notin Ids(Certs(k)))
            => /\ reqs'[r].status = "false"
               /\ store' = store /\ blobs' = blobs]_vars
    /\ [](\A r \in Used :
            (/\ reqs[r].op \in DeleteOps /\ reqs[r].repeated
             /\ reqs[r].pc = "idle" /\ reqs[r].status # "none")
            => reqs[r].status = "false")

\* The ids of the certificates of product k are pairwise distinct.
DistinctIds(k) ==
    \A i, j \in 1..Len(Certs(k)) : i # j => Certs(k)[i].id # Certs(k)[j].id

\* In this step an upload of request r stores its record on product k, which
\* had no record when the upload read it.
StoresOnNew(r, k) ==
    /\ reqs'[r].op = "upload" /\ k = Key(reqs'[r])
    /\ reqs'[r].applied = reqs[r].applied + 1
    /\ IF backend = "mock" THEN ~Exists(k) ELSE Len(reqs[r].snap) = 1

\* An upload to a product without a record leaves exactly one record.
FirstUploadGivesOne ==
    \A r \in Slots : \A k \in Keys :
        StoresOnNew(r, k) => Len(listProductCertificates(k)') = 1

\* C19, as claimed: within one product all certificate ids are pairwise
\* distinct in every reachable state, and an upload to a fresh product
\* followed by listProductCertificates yields exactly one record.
C19_Original ==
    /\ [](\A k \in Keys : DistinctIds(k))
    /\ [][FirstUploadGivesOne]_vars

\* C19, amended: the ids of a product are pairwise distinct as long as every
\* id generated for its records was one never generated before (no store
\* operation duplicates a record); and an upload to a fresh product followed
\* by listProductCertificates yields exactly one record.
C19_DistinctWhileFresh ==
    /\ [](\A k \in Keys :
            (\A i \in 1..Len(Certs(k)) : Certs(k)[i].fresh) => DistinctIds(k))
    /\ [][FirstUploadGivesOne]_vars

\* Two uploads have each stored a record with a new id on p1.
C19_Witness ==
    /\ Len(Certs("p1")) = 2
    /\ Certs("p1")[1].fresh /\ Certs("p1")[2].fresh
    /\ Certs("p1")[1].origin # 0 /\ Certs("p1")[2].origin # 0
    /\ Certs("p1")[1].id # Certs("p1")[2].id

\* In this step the listProductCertificates of request r returns.
ListForProductReturns(r) ==
    /\ reqs'[r] # reqs[r]
    /\ reqs'[r].op = "listProductCertificates"
    /\ "return" \in Range(reqs'[r].trace)

\* C20: listProductCertificates(p) for a p without a product record returns
\* the empty sequence and does not throw; on the message channel the response
\* is a listProductCertificatesResponse with that productId, an empty
\* certificates array and total 0.
C20_UnknownProductEmpty ==
    [][\A r \in Slots : \A k \in Keys :
          (ListForProductReturns(r) /\ k = Key(reqs'[r]) /\ ~Exists(k))
          => /\ reqs'[r].certificates = <<>>
             /\ reqs'[r].status # "throw"
             /\ reqs'[r].via = "chan" =>
                  \E resp \in published' \ published :
                      /\ resp.req = r
                      /\ resp.operationType = "listProductCertificatesResponse"
                      /\ resp.productId = ArgProductId(reqs'[r])
                      /\ resp.certificates = <<>>
                      /\ resp.total = 0]_vars

\* The channel has answered a listProductCertificates for p2, which has no
\* record.
C20_Witness ==
    \E resp \in published :
        /\ resp.operationType = "listProductCertificatesResponse"
        /\ resp.productId = "p2" /\ resp.total = 0
        /\ reqs[resp.req].productId = "p2"
        /\ ~Exists("p2")

\* The store operations that report a boolean.
BooleanOps == {"upload", "delete", "deleteProductCertificate", "deleteProduct"}

\* C21: any I/O error of the blob store or of the document store during
\* upload, deleteCertificate(productId) or deleteProductCertificate becomes a
\* false result (an empty list for the two list operations), and no store
\* operation lets an exception reach its caller.
C21_IoErrorIsFalse ==
    \A r \in Used :
        /\ reqs[r].status # "throw"
        /\ (reqs[r].ioFailed /\ reqs[r].status # "none") =>
             /\ reqs[r].op \in BooleanOps => reqs[r].status = "false"
             /\ reqs[r].op = "list" => reqs[r].productIds = {}
             /\ reqs[r].op = "listProductCertificates" => reqs[r].certificates = <<>>

\* In this step the deleteCertificate(productId) of request r returns true
\* without any I/O error (durable: its document delete has settled).
ProductDeleteDone(r) ==
    /\ reqs'[r].op = "deleteProduct"
    /\ reqs[r].status # "true" /\ reqs'[r].status = "true"
    /\ ~reqs'[r].ioFailed

\* C22: deleteCertificate(productId) returns true whenever no I/O error
\* occurs; right after it p is not in listCertificates() and
\* listProductCertificates(p) is empty; when p does not exist it returns true
\* and leaves the store unchanged.
C22_DeleteProduct ==
    /\ [](\A r \in Used :
            (/\ reqs[r].op = "deleteProduct" /\ reqs[r].status # "none"
             /\ ~reqs[r].ioFailed)
            => reqs[r].status = "true")
    /\ [][\A r \in Slots : \A k \in Keys :
            (ProductDeleteDone(r) /\ k = Key(reqs'[r]))
            => /\ k \notin listCertificates'
               /\ listProductCertificates(k)' = <<>>
               /\ ~Exists(k) => store' = store /\ blobs' = blobs]_vars

\* deleteCertificate("p1") has returned true on the p1 the service started
\* with, and p1 is gone.
C22_Witness ==
    /\ reqs[1].op = "deleteProduct" /\ reqs[1].productId = "p1"
    /\ reqs[1].status = "true" /\ ~reqs[1].ioFailed /\ reqs[1].pc = "idle"
    /\ ~reqs[2].used
    /\ nextId = 1 /\ ~Exists("p1")

\* A store without the storage locators of its records.
Erase(st) ==
    [k \in Keys |->
        [exists |-> st[k].exists,
         certificates |-> [i \in 1..Len(st[k].certificates) |->
                             [st[k].certificates[i] EXCEPT !.bucketPath = ""]]]]

\* In this step the durable branch of request r's store operation settles
\* its boolean result.
DurableDecides(r) ==
    /\ backend = "durable"
    /\ reqs'[r].op \in BooleanOps
    /\ reqs[r].pc # "verify"
    /\ (reqs[r].pc = "idle" \/ reqs[r].status = "none") /\ reqs'[r].status # "none"
    /\ reqs'[r] # reqs[r]

\* What the mock branch does with the same call on the same store.
MockOutcome(r) ==
    LET q == IF reqs[r].pc = "idle" THEN reqs'[r] ELSE reqs[r] IN
    CASE q.op = "upload" -> mockUpload(r, q, q.validUntil)
      [] q.op = "deleteProduct" -> mockDeleteCertificate(r, q)
      [] OTHER -> mockDeleteProductCertificate(r, q)

\* C23: used sequentially and without I/O failures, the durable backend
\* returns what the mock backend returns and leaves the same records, their
\* storage locators apart: for uploads and deletes the same boolean and the
\* same store, for the two list operations the store's content.
C23_BackendsAgree ==
    [][\A r \in Slots :
          /\ DurableDecides(r) =>
               /\ reqs'[r].status = MockOutcome(r).req.status
               /\ Erase(store') = Erase(MockOutcome(r).store)
          /\ (ListReturns(r) /\ "dispatch" \in Range(reqs'[r].trace)) =>
               reqs'[r].productIds = listCertificates
          /\ (ListForProductReturns(r) /\ "dispatch" \in Range(reqs'[r].trace)) =>
               reqs'[r].certificates = listProductCertificates(Key(reqs'[r]))]_vars

\* ------------------------------------------------------------------ C24
\* C24: a failure of transport setup does not stop the process.  Once the
\* module body has run the HTTP listener is up and stays up whatever
\* setupPubSub does, no handler has ended the process, every answer of
\* /healthz is 200 "ok", and every HTTP request that has ended was answered.
C24_SetupFailureKeepsGateway ==
    /\ boot.pc # "start" => boot.listening /\ Alive
    /\ boot.health # 0 => boot.health = 200 /\ boot.healthBody = "ok"
    /\ \A r \in Used :
         reqs[r].via = "http" /\ reqs[r].pc = "idle" => reqs[r].code # 0

\* The first run of setupPubSub has failed; since then /healthz has answered
\* and an upload over HTTP has been stored and answered 200.
C24_Witness ==
    /\ boot.pc = "failed" /\ boot.runs = 1 /\ ~boot.attached
    /\ boot.healthAt = "failed" /\ boot.health = 200
    /\ \E r \in Used :
         /\ reqs[r].via = "http" /\ reqs[r].op = "upload"
         /\ reqs[r].pc = "idle" /\ reqs[r].code = 200
         /\ Key(reqs[r]) \in listCertificates

\* ------------------------------------------------------------------ C25
\* C25: startup is idempotent.  Every run of setupPubSub that Pub/Sub
\* answers ends with the two topics and the subscription present and the
\* message handler attached, also when another party creates one of them
\* between the listing and the create call; and a run that starts with all
\* three present changes none of them.
C25_StartupIdempotent ==
    [][/\ boot'.pc \in {"done", "failed"} /\ boot'.reason # "unavailable"
          => boot'.pc = "done" /\ boot'.present = Resources /\ boot'.attached
       /\ boot.startedWith = Resources /\ boot.pc \notin {"start", "done", "failed"}
          => boot'.present = boot.present]_vars

\* ------------------------------------------------------------------ C26
\* The record that the upload of request s appended is in certs.
RecordOf(s, certs) == \E i \in DOMAIN certs : certs[i].origin = s

\* The uploads that reached request r's gateway from the other one: they
\* have returned true, and no delete has run on their product.
SharedWith(r) ==
    {s \in Used :
        /\ reqs[s].via \in {"http", "chan"} /\ reqs[s].via # reqs'[r].via
        /\ UploadEnded(s) /\ reqs[s].status = "true"
        /\ DeletesOn(Key(reqs[s])) = {}}

\* C26: the HTTP gateway and the message-channel adapter work on one store.
\* The record of every upload that returned true stays in that store while
\* nothing is deleted from its product; a list on one gateway whose read
\* succeeds returns the productId of every such upload of the other
\* gateway, and a listProductCertificates on its product returns its record.
C26_OneStore ==
    /\ [](\A s \in Used :
            (UploadEnded(s) /\ reqs[s].status = "true" /\ DeletesOn(Key(reqs[s])) = {})
              => RecordOf(s, Certs(Key(reqs[s]))))
    /\ [][\A r \in Slots : \A s \in SharedWith(r) :
            /\ ListReturns(r) /\ ~reqs'[r].ioFailed
                 => Key(reqs[s]) \in reqs'[r].productIds
            /\ (ListForProductReturns(r) /\ ~reqs'[r].ioFailed
                  /\ "dispatch" \in Range(reqs'[r].trace) /\ Key(reqs'[r]) = Key(reqs[s]))
                 => RecordOf(s, reqs'[r].certificates)]_vars

\* ------------------------------------------------------------------ C27
\* An answered POST /certificates/upload.
UploadAnswered(r) ==
    /\ reqs[r].used /\ reqs[r].via = "http" /\ reqs[r].op = "upload"
    /\ reqs[r].pc = "idle"

\* uploadCertificate was called for request r.
StoreInvoked(r) == "dispatch" \in Range(reqs[r].trace)

\* C27: POST /certificates/upload answers 500 when the body does not parse,
\* 400 without calling the store when productId, file or certificateId is
\* missing, and otherwise 200 exactly when uploadCertificate returns true,
\* 400 when it returns false and 500 when it throws; the success field of
\* the body is the store's result, false when there is none.
C27_UploadStatus ==
    \A r \in Slots : UploadAnswered(r) =>
        LET q == reqs[r] IN
        /\ q.body = "garbage" => q.code = 500 /\ ~StoreInvoked(r)
        /\ q.body # "garbage" /\ AbsentField(q)
             => q.code = 400 /\ ~StoreInvoked(r) /\ q.regCalls = 0 /\ q.applied = 0
        /\ q.body # "garbage" /\ ~AbsentField(q) => StoreInvoked(r)
        /\ StoreInvoked(r) =>
             /\ q.status \in {"true", "false", "throw"}
             /\ q.code = 200 <=> q.status = "true"
             /\ q.status = "false" => q.code = 400
             /\ q.status = "throw" => q.code = 500
        /\ q.success = IF StoreInvoked(r) /\ q.status = "true" THEN "true" ELSE "false"

\* One upload was stored and answered 200, another reached the store, was
\* refused and answered 400.
C27_Witness ==
    \E r1, r2 \in Slots :
        /\ UploadAnswered(r1) /\ reqs[r1].code = 200 /\ reqs[r1].applied = 1
        /\ UploadAnswered(r2) /\ StoreInvoked(r2)
        /\ reqs[r2].status = "false" /\ reqs[r2].code = 400

\* ------------------------------------------------------------------ C28
\* C28: GET /certificates/:productId, when the store read succeeds, answers
\* 200 exactly when the product that the path names has at least one
\* certificate and 404 otherwise, and the body holds that product's
\* certificate sequence.
C28_GetProduct ==
    [][\A r \in Slots :
          (/\ ListForProductReturns(r) /\ reqs'[r].via = "http"
           /\ "dispatch" \in Range(reqs'[r].trace) /\ ~reqs'[r].ioFailed)
          => LET k == DecodeURIComponent(reqs'[r].productId) IN
             /\ reqs'[r].code = IF Len(Certs(k)) > 0 THEN 200 ELSE 404
             /\ reqs'[r].certificates = Certs(k)]_vars

\* ------------------------------------------------------------------ C29
\* C29: the response to a delete request and the response to a
\* deleteProductCertificate request carry productId and certificateId as
\* handleRequest received them, and the result of deleteProductCertificate
\* as status.
C29_DeleteResponseFields ==
    [][\A resp \in published' \ published :
          resp.operationType \in {"deleteResponse", "deleteProductCertificateResponse"}
          => LET q == reqs'[resp.req] IN
             /\ q.op \in DeleteOps
             /\ resp.productId = ArgProductId(q)
             /\ resp.certificateId = ArgCertificateId(q)
             /\ resp.status = q.status /\ resp.status \in {"true", "false"}]_vars

\* ------------------------------------------------------------------ C30
\* C30: every certificate record in the store has verified = true, whatever
\* uploads and deletes have run and however they interleaved or failed.
C30_StoredIsVerified ==
    \A k \in Keys : \A i \in DOMAIN Certs(k) : Certs(k)[i].verified = TRUE

\* A delete has removed the older record of p1 and left the record that an
\* upload of this run stored.
C30_Witness ==
    /\ Len(Certs("p1")) = 1
    /\ Certs("p1")[1].origin # 0 /\ Certs("p1")[1].verified
    /\ \E r \in Used :
         /\ reqs[r].op \in DeleteOps /\ reqs[r].status = "true"
         /\ Key(reqs[r]) = "p1" /\ ArgCertificateId(reqs[r]) = CertId(1)

\* ------------------------------------------------------------------ C31
\* The valid-until date of the registry's row for certificate number c.
RegistryDate(c) == RegistryAnswer(String(c)).data[1].validUntil

\* C31: the validUntil of every stored record is the valid-until date that
\* the registry holds for the certificateId of the upload that stored it
\* (the record the service starts with was stored by an upload of "cv").
C31_ValidUntilFromRegistry ==
    \A k \in Keys : \A i \in DOMAIN Certs(k) :
        LET c == Certs(k)[i] IN
        c.validUntil =
            IF c.origin = 0 THEN RegistryDate("cv")
            ELSE RegistryDate(ArgCertificateId(reqs[c.origin]))

\* p1 holds the records of an upload of "cv" and of an upload of "cw", each
\* with its own date.
C31_Witness ==
    \E i, j \in DOMAIN Certs("p1") :
        /\ Certs("p1")[i].origin # 0 /\ Certs("p1")[j].origin # 0
        /\ Certs("p1")[i].validUntil = RegistryValidUntil
        /\ Certs("p1")[j].validUntil = Today
        /\ ArgCertificateId(reqs[Certs("p1")[j].origin]) = "cw"

\* ------------------------------------------------------------------ C32
\* In every list response total counts the elements the response holds.
TotalCounts ==
    \A resp \in published :
        /\ resp.operationType = "listResponse"
             => resp.total = Cardinality(resp.productIds)
        /\ resp.operationType = "listProductCertificatesResponse"
             => resp.total = Len(resp.certificates)

\* C32 as stated: total counts the elements, and the productId of every
\* listProductCertificatesResponse is the productId of its request.
C32_Original ==
    /\ TotalCounts
    /\ \A resp \in published :
         resp.operationType = "listProductCertificatesResponse"
           => resp.productId = reqs[resp.req].productId

\* C32 as amended: total counts the elements, and the productId of every
\* listProductCertificatesResponse is the productId of its request when the
\* request has one and the empty string when it has none.
C32_ListTotals ==
    /\ TotalCounts
    /\ \A resp \in published :
         resp.operationType = "listProductCertificatesResponse"
           => resp.productId = DefaultParam(reqs[resp.req].productId, "")

\* A list and a listProductCertificates of p1 have been answered while p1
\* held one certificate.
C32_Witness ==
    \E a, b \in published :
        /\ a.operationType = "listResponse" /\ a.productIds = {"p1"} /\ a.total = 1
        /\ b.operationType = "listProductCertificatesResponse"
        /\ b.productId = "p1" /\ b.total = 1 /\ Len(b.certificates) = 1

\* ------------------------------------------------------------------ C33
\* C33: of the deleteProductCertificate calls for one certificate of one
\* product, at most one returns true, however the calls interleave and in
\* both backends, when every I/O call of the two succeeds.
C33_OneDeleteWins ==
    \A r1, r2 \in Used :
        (/\ r1 # r2
         /\ reqs[r1].op \in DeleteOps /\ reqs[r2].op \in DeleteOps
         /\ Key(reqs[r1]) = Key(reqs[r2])
         /\ String(ArgCertificateId(reqs[r1])) = String(ArgCertificateId(reqs[r2]))
         /\ ~reqs[r1].ioFailed /\ ~reqs[r2].ioFailed
         /\ reqs[r1].status = "true")
        => reqs[r2].status # "true"

\* ------------------------------------------------------------------ C34
\* Two uploads of a file with the valid certificate "cv" to two different
\* products, both returned.
UploadPairs ==
    {p \in Used \X Used :
        /\ p[1] # p[2]
        /\ UploadEnded(p[1]) /\ UploadEnded(p[2])
        /\ Truthy(reqs[p[1]].productId) /\ Truthy(reqs[p[2]].productId)
        /\ reqs[p[1]].file = "b64" /\ reqs[p[2]].file = "b64"
        /\ Key(reqs[p[1]]) # Key(reqs[p[2]])
        /\ ArgCertificateId(reqs[p[1]]) = "cv" /\ ArgCertificateId(reqs[p[2]]) = "cv"}

\* The upload of request r returned true, its product is listed and holds,
\* of the records stored since the service started, the one of r and no
\* other.
StoredAlone(r) ==
    LET k == Key(reqs[r]) IN
    /\ reqs[r].status = "true"
    /\ k \in listCertificates
    /\ Cardinality({i \in DOMAIN Certs(k) : Certs(k)[i].origin = r}) = 1
    /\ \A i \in DOMAIN Certs(k) : Certs(k)[i].origin \in {0, r}

DeleteLacksField(q) ==
    /\ q.used /\ Envelope(q) /\ q.op = "deleteProductCertificate"
    /\ q.productId = Undefined \/ q.certificateId = Undefined

\* C35: a deleteProductCertificate request that lacks productId or
\* certificateId changes neither the records nor the blobs at any of its
\* steps and is answered with status false, whatever the store holds.
C35_DeleteLacksFieldIsFalse ==
    [][\A r \in Slots :
          (DeleteLacksField(reqs'[r]) /\ reqs'[r] # reqs[r])
          => /\ store' = store /\ blobs' = blobs
             /\ reqs'[r].status \in {"none", "false"}
             /\ \A resp \in published' \ published :
                  resp.req = r => resp.status = "false"]_vars

\* ------------------------------------------------------------------ C36
\* The deleteProductCertificate call of request r has returned true, and
\* none of its I/O calls failed.
DeleteReturnedTrue(r) ==
    /\ reqs[r].used /\ reqs[r].op \in DeleteOps
    /\ reqs[r].pc = "idle" /\ reqs[r].status = "true" /\ ~reqs[r].ioFailed

\* C36: in the durable backend, once a deleteProductCertificate call has
\* returned true the product record never holds the deleted id again,
\* whatever uploads and deletes on the same product ran beside it; so no
\* later listProductCertificates returns it.
C36_DeletedStaysDeleted ==
    \A r \in Slots :
        (backend = "durable" /\ DeleteReturnedTrue(r))
        => String(ArgCertificateId(reqs[r])) \notin Ids(Certs(Key(reqs[r])))

====
